---- MODULE Spec2Model ----
(***************************************************************************)
(* Model of src/app.py: the document acquisition pipeline of stocklib.    *)
(*                                                                         *)
(* Text (file names, extensions, the leading bytes of a body) is a        *)
(* sequence of one-character strings, so that strip, startswith, lower,   *)
(* splitext and concatenation are computed rather than assumed.           *)
(* A body is its leading bytes `head` followed by `fill` bytes of a       *)
(* non-blank filler, so that bodies of 1023 and 1024 bytes can be told    *)
(* apart without enumerating a thousand bytes.                            *)
(***************************************************************************)
EXTENDS Integers, Sequences, FiniteSets, TLC

VARIABLES
    mode,                       \* which entry point this run exercises
    pc,                         \* position in the code
    links,                      \* download_selected_documents: argument links
    doc_types,                  \* download_selected_documents: argument doc_types
    filtered_links,             \* app.py:268
    i,                          \* loop index of app.py:273 (1-based)
    file_contents_for_zip,      \* app.py:267, mapping file name -> bytes
    failed_downloads_details,   \* app.py:267, sequence of failure entries
    folder,                     \* names of the files in the destination folder
    call,                       \* arguments of the running download call
    rq,                         \* frame of download_with_requests
    sel,                        \* frame of download_with_selenium
    attempt,                    \* frame of download_file_attempt / loop body
    history,                    \* per processed reference: "archived", "failed", "raised"
    reply,                      \* the response of fetch_documents
    fn                          \* frame of a function that is called on its own

vars == <<mode, pc, links, doc_types, filtered_links, i, file_contents_for_zip,
          failed_downloads_details, folder, call, rq, sel, attempt, history, reply, fn>>

(***************************************************************************)
(* Bounds and program constants                                            *)
(***************************************************************************)
MaxLinks == 2
MaxDateLen == 5
MaxEntries == 2

MIN_FILE_SIZE == 1024

(***************************************************************************)
(* Text helpers                                                            *)
(***************************************************************************)
UpperLetters == <<"A","B","C","D","E","F","G","H","I","J","K","L","M",
                  "N","O","P","Q","R","S","T","U","V","W","X","Y","Z">>
LowerLetters == <<"a","b","c","d","e","f","g","h","i","j","k","l","m",
                  "n","o","p","q","r","s","t","u","v","w","x","y","z">>
Digits == {"0","1","2","3","4","5","6","7","8","9"}
Whitespace == {" ", "\n", "\t", "\r"}

Range(s) == {s[k] : k \in DOMAIN s}

\* bytes.lower() / str.lower() on one character
LowerChar(c) ==
    IF \E k \in 1..26 : UpperLetters[k] = c
    THEN LowerLetters[CHOOSE k \in 1..26 : UpperLetters[k] = c]
    ELSE c

lower(s) == [k \in DOMAIN s |-> LowerChar(s[k])]

\* the regular-expression class \w (ASCII part)
IsWordChar(c) ==
    \/ c \in Digits
    \/ c \in Range(UpperLetters)
    \/ c \in Range(LowerLetters)
    \/ c = "_"

\* s.rfind(c): the last index of c in s, 0 when absent
RFind(s, c) ==
    IF \E k \in DOMAIN s : s[k] = c
    THEN CHOOSE k \in DOMAIN s : s[k] = c /\ \A m \in DOMAIN s : s[m] = c => m <= k
    ELSE 0

\* os.path.splitext(p): <<root, ext>>; the extension starts at the last dot
\* that follows the last slash and is not part of the name's leading dots
splitext(p) ==
    LET sep == RFind(p, "/")
        dot == RFind(p, ".")
    IN  IF dot > sep /\ \E k \in (sep + 1)..(dot - 1) : p[k] # "."
        THEN <<SubSeq(p, 1, dot - 1), SubSeq(p, dot, Len(p))>>
        ELSE <<p, <<>> >>

\* os.path.basename(p)
basename(p) == SubSeq(p, RFind(p, "/") + 1, Len(p))

(***************************************************************************)
(* Bodies                                                                  *)
(***************************************************************************)
BodyLen(b) == Len(b.head) + b.fill

\* the k-th byte of a body; the filler is the byte "x"
ByteAt(b, k) == IF k <= Len(b.head) THEN b.head[k] ELSE "x"

\* bytes.strip(): blanks are trimmed at both ends
LStripSeq(s) ==
    IF \A k \in DOMAIN s : s[k] \in Whitespace THEN <<>>
    ELSE SubSeq(s, CHOOSE k \in DOMAIN s :
                      s[k] \notin Whitespace /\ \A m \in 1..(k - 1) : s[m] \in Whitespace,
                Len(s))
RStripSeq(s) ==
    IF \A k \in DOMAIN s : s[k] \in Whitespace THEN <<>>
    ELSE SubSeq(s, 1, CHOOSE k \in DOMAIN s :
                      s[k] \notin Whitespace /\ \A m \in (k + 1)..Len(s) : s[m] \in Whitespace)
strip(b) ==
    IF b.fill > 0 THEN [head |-> LStripSeq(b.head), fill |-> b.fill]
    ELSE [head |-> RStripSeq(LStripSeq(b.head)), fill |-> 0]

\* bytes.startswith(prefix)
startswith(b, prefix) ==
    /\ BodyLen(b) >= Len(prefix)
    /\ \A k \in DOMAIN prefix : ByteAt(b, k) = prefix[k]

DOCTYPE_HTML == <<"<","!","D","O","C","T","Y","P","E"," ","h","t","m","l">>
HTML_TAG == <<"<","h","t","m","l">>

\* app.py:154 and app.py:235: the test that classifies a body as an HTML page
LooksLikeHtml(content) ==
    \/ startswith(strip(content), DOCTYPE_HTML)
    \/ startswith(strip(content), HTML_TAG)

(***************************************************************************)
(* Values                                                                  *)
(***************************************************************************)
None == "None"                          \* None where a string is expected
NoPath == <<>>                          \* None where a path is expected
NoBody == [head |-> <<>>, fill |-> 0]   \* None / b'' where bytes are expected
NoResponse == [headers |-> [disposition |-> <<>>, content_type |-> <<>>],
               body |-> NoBody]
NoResult == [path |-> NoPath, content |-> NoBody, error |-> None, detail |-> None]

\* Python truthiness of a path and of bytes
Truthy(x) == x # <<>>
TruthyBytes(b) == BodyLen(b) > 0

Failure(code, detail_str) ==
    [path |-> NoPath, content |-> NoBody, error |-> code, detail |-> detail_str]
Success(path_written, content) ==
    [path |-> path_written, content |-> content, error |-> None, detail |-> None]

folder_path == <<"t">>
\* os.path.join(folder_path, file_name)
join(dir, file_name) == dir \o <<"/">> \o file_name

TypeText(doc_type) ==
    CASE doc_type = "Annual_Report" ->
            <<"A","n","n","u","a","l","_","R","e","p","o","r","t">>
      [] doc_type = "Transcript" -> <<"T","r","a","n","s","c","r","i","p","t">>
      [] doc_type = "PPT" -> <<"P","P","T">>

(***************************************************************************)
(* get_extension_from_response, app.py:39-68                               *)
(* A header value is text, the empty text when the header is absent; a    *)
(* URL is modelled by the host class and markers lines 127-139 test and   *)
(* by its path.                                                            *)
(***************************************************************************)
EXT_PDF == <<".","p","d","f">>
EXT_PPTX == <<".","p","p","t","x">>

\* the dictionary of lines 51-58, in its order: <<media type, extension>>
MIME_TO_EXT ==
    <<<<<<"a","p","p","l","i","c","a","t","i","o","n","/","p","d","f">>,
         EXT_PDF>>,
       <<<<"a","p","p","l","i","c","a","t","i","o","n","/","v","n","d",".",
           "m","s","-","p","o","w","e","r","p","o","i","n","t">>,
         <<".","p","p","t">>>>,
       <<<<"a","p","p","l","i","c","a","t","i","o","n","/","v","n","d",".",
           "o","p","e","n","x","m","l","f","o","r","m","a","t","s","-","o",
           "f","f","i","c","e","d","o","c","u","m","e","n","t",".","p","r",
           "e","s","e","n","t","a","t","i","o","n","m","l",".","p","r","e",
           "s","e","n","t","a","t","i","o","n">>,
         EXT_PPTX>>,
       <<<<"a","p","p","l","i","c","a","t","i","o","n","/","m","s","w","o",
           "r","d">>,
         <<".","d","o","c">>>>,
       <<<<"a","p","p","l","i","c","a","t","i","o","n","/","v","n","d",".",
           "o","p","e","n","x","m","l","f","o","r","m","a","t","s","-","o",
           "f","f","i","c","e","d","o","c","u","m","e","n","t",".","w","o",
           "r","d","p","r","o","c","e","s","s","i","n","g","m","l",".","d",
           "o","c","u","m","e","n","t">>,
         <<".","d","o","c","x">>>>,
       <<<<"a","p","p","l","i","c","a","t","i","o","n","/","z","i","p">>,
         <<".","z","i","p">>>>,
       <<<<"a","p","p","l","i","c","a","t","i","o","n","/","x","-","z","i",
           "p","-","c","o","m","p","r","e","s","s","e","d">>,
         <<".","z","i","p">>>>,
       <<<<"t","e","x","t","/","c","s","v">>,
         <<".","c","s","v">>>>>>

\* line 59: `if ct in mime_to_ext: return mime_to_ext[ct]`, <<>> when ct is no key
mime_to_ext(ct) ==
    IF \E k \in DOMAIN MIME_TO_EXT : MIME_TO_EXT[k][1] = ct
    THEN MIME_TO_EXT[CHOOSE k \in DOMAIN MIME_TO_EXT : MIME_TO_EXT[k][1] = ct][2]
    ELSE <<>>

\* the length test of lines 46 and 64: `ext and 1 < len(ext) < 7`
PlausibleExt(ext) == Len(ext) > 1 /\ Len(ext) < 7

\* t occurs in s at position p, letter case ignored (re.IGNORECASE)
StartsAtNoCase(s, p, t) ==
    /\ p + Len(t) - 1 <= Len(s)
    /\ \A k \in DOMAIN t : LowerChar(s[p + k - 1]) = LowerChar(t[k])

\* the end of the longest run [^";\s]+ that starts at q, q - 1 when there is none
RunEnd(s, q) ==
    LET IsNameChar(c) == c \notin ({"\"", ";"} \cup Whitespace)
    IN  IF q > Len(s) \/ ~IsNameChar(s[q]) THEN q - 1
        ELSE CHOOSE e \in q..Len(s) :
                /\ \A k \in q..e : IsNameChar(s[k])
                /\ e = Len(s) \/ ~IsNameChar(s[e + 1])

\* the position that follows (?:UTF-\d{1,2}''|") at q, q itself when neither is there
AfterPrefix(s, q) ==
    IF StartsAtNoCase(s, q, <<"U","T","F","-">>)
    THEN LET d == q + 4
         IN  IF d + 3 <= Len(s) /\ s[d] \in Digits /\ s[d + 1] \in Digits
                /\ s[d + 2] = "'" /\ s[d + 3] = "'"
             THEN d + 4
             ELSE IF d + 2 <= Len(s) /\ s[d] \in Digits /\ s[d + 1] = "'" /\ s[d + 2] = "'"
             THEN d + 3
             ELSE q
    ELSE IF q <= Len(s) /\ s[q] = "\"" THEN q + 1
    ELSE q

NoMatch == [from |-> 0, to |-> 0]

\* the match of the pattern of line 42 at position p: the span of its group.
\* The optional prefix is tried first and given up when no name follows it.
filename_match(s, p) ==
    IF ~StartsAtNoCase(s, p, <<"f","i","l","e","n","a","m","e">>) THEN NoMatch
    ELSE LET a == p + 8
             b == IF a <= Len(s) /\ s[a] = "*" THEN a + 1 ELSE a
         IN  IF ~(b <= Len(s) /\ s[b] = "=") THEN NoMatch
             ELSE LET q == b + 1
                      g == AfterPrefix(s, q)
                  IN  IF RunEnd(s, g) >= g THEN [from |-> g, to |-> RunEnd(s, g)]
                      ELSE IF RunEnd(s, q) >= q THEN [from |-> q, to |-> RunEnd(s, q)]
                      ELSE NoMatch

\* re.findall from position p on: the groups of the non-overlapping matches
RECURSIVE findall_filenames(_, _)
findall_filenames(s, p) ==
    IF p > Len(s) THEN <<>>
    ELSE LET hit == filename_match(s, p)
         IN  IF hit # NoMatch
             THEN <<SubSeq(s, hit.from, hit.to)>> \o findall_filenames(s, hit.to + 1)
             ELSE findall_filenames(s, p + 1)

\* str.strip('"')
RECURSIVE strip_quotes(_)
strip_quotes(s) ==
    IF s # <<>> /\ s[1] = "\"" THEN strip_quotes(Tail(s))
    ELSE IF s # <<>> /\ s[Len(s)] = "\"" THEN strip_quotes(SubSeq(s, 1, Len(s) - 1))
    ELSE s

\* urllib.parse.unquote; Unescaped is the character a percent escape stands
\* for, "" for an escape outside the ones the file names use
RECURSIVE unquote(_)
unquote(s) ==
    LET Unescaped(h1, h2) ==
            CASE <<h1, LowerChar(h2)>> = <<"2", "0">> -> " "
              [] <<h1, LowerChar(h2)>> = <<"2", "e">> -> "."
              [] <<h1, LowerChar(h2)>> = <<"2", "f">> -> "/"
              [] <<h1, LowerChar(h2)>> = <<"3", "b">> -> ";"
              [] OTHER -> ""
    IN  IF s = <<>> THEN <<>>
        ELSE IF s[1] = "%" /\ Len(s) >= 3 /\ Unescaped(s[2], s[3]) # ""
             THEN <<Unescaped(s[2], s[3])>> \o unquote(SubSeq(s, 4, Len(s)))
        ELSE <<s[1]>> \o unquote(Tail(s))

\* line 50: content_type.split(';')[0].strip().lower()
media_type(content_type) ==
    LET semi == IF \E k \in DOMAIN content_type : content_type[k] = ";"
                THEN CHOOSE k \in DOMAIN content_type :
                        /\ content_type[k] = ";"
                        /\ \A m \in 1..(k - 1) : content_type[m] # ";"
                ELSE Len(content_type) + 1
    IN  lower(RStripSeq(LStripSeq(SubSeq(content_type, 1, semi - 1))))

get_extension_from_response(response, url, doc_type_for_default) ==
    LET content_disposition == response.headers.disposition
        filenames == findall_filenames(content_disposition, 1)
        parsed_filename == unquote(strip_quotes(filenames[Len(filenames)]))
        ext == IF filenames # <<>> THEN splitext(parsed_filename)[2] ELSE <<>>
        content_type == response.headers.content_type
        ct == media_type(content_type)
        ext_from_url == splitext(url.path)[2]
    IN  IF content_disposition # <<>> /\ filenames # <<>> /\ PlausibleExt(ext) THEN lower(ext)
        ELSE IF content_type # <<>> /\ mime_to_ext(ct) # <<>> THEN mime_to_ext(ct)
        ELSE IF PlausibleExt(ext_from_url) THEN lower(ext_from_url)
        ELSE IF doc_type_for_default = "PPT" THEN EXT_PPTX
        ELSE EXT_PDF

(***************************************************************************)
(* format_filename_base, app.py:70-79                                      *)
(***************************************************************************)
AllDigits(s, from, to) == \A k \in from..to : s[k] \in Digits

\* `$` also matches before a newline that ends the string
EndsAt(s, n) == Len(s) = n \/ (Len(s) = n + 1 /\ s[n + 1] = "\n")

MatchYear(s) == Len(s) >= 4 /\ AllDigits(s, 1, 4) /\ EndsAt(s, 4)
MatchYearMonth(s) ==
    Len(s) >= 7 /\ AllDigits(s, 1, 4) /\ s[5] = "-" /\ AllDigits(s, 6, 7) /\ EndsAt(s, 7)
MatchDayMonthYear(s) ==
    /\ Len(s) >= 10 /\ AllDigits(s, 1, 2) /\ s[3] = "/" /\ AllDigits(s, 4, 5)
    /\ s[6] = "/" /\ AllDigits(s, 7, 10) /\ EndsAt(s, 10)

\* re.sub(r'[^\w\.-]', '_', date_str)
clean_date(s) ==
    [k \in DOMAIN s |-> IF IsWordChar(s[k]) \/ s[k] = "." \/ s[k] = "-" THEN s[k] ELSE "_"]

format_filename_base(date_str, doc_type) ==
    LET t == TypeText(doc_type)
        us == <<"_">>
    IN  IF MatchYear(date_str) THEN date_str \o us \o t
        ELSE IF MatchYearMonth(date_str)
             THEN SubSeq(date_str, 1, 4) \o us \o SubSeq(date_str, 6, Len(date_str)) \o us \o t
        ELSE IF MatchDayMonthYear(date_str)
             THEN SubSeq(date_str, 7, Len(date_str)) \o us \o SubSeq(date_str, 4, 5)
                  \o us \o SubSeq(date_str, 1, 2) \o us \o t
        ELSE clean_date(date_str) \o us \o t

(***************************************************************************)
(* What the remote hosts and the environment can do                       *)
(***************************************************************************)
DocTypes == {"Annual_Report", "Transcript", "PPT"}

url_plain == [site |-> "other", viewer |-> FALSE, pname |-> FALSE,
              path |-> <<"/","a",".","p","d","f">>]
url_noext == [site |-> "other", viewer |-> FALSE, pname |-> FALSE,
              path |-> <<"/","d","o","c">>]
url_bse == [site |-> "bse", viewer |-> FALSE, pname |-> FALSE,
            path |-> <<"/","b",".","p","d","f">>]
\* a BSE announcement viewer URL (AnnPdfOpen.aspx?Pname=...)
url_bse_ann == [site |-> "bse", viewer |-> TRUE, pname |-> TRUE,
                path |-> <<"/","A",".","a","s","p","x">>]
\* the viewer URL without a Pname parameter
url_bse_ann_bare == [site |-> "bse", viewer |-> TRUE, pname |-> FALSE,
                     path |-> <<"/","A",".","a","s","p","x">>]
url_nse == [site |-> "nse", viewer |-> FALSE, pname |-> FALSE,
            path |-> <<"/","n",".","p","d","f">>]

AllUrls == {url_plain, url_noext, url_bse, url_bse_ann, url_bse_ann_bare, url_nse}

head_pdf == <<"%","P","D","F">>
head_zip == <<"P","K">>
head_html == <<"<","h","t","m","l",">">>
Heads ==
    {head_pdf, head_zip, head_html,
     <<"<","H","T","M","L",">">>,
     DOCTYPE_HTML \o <<">">>,
     <<"<","!","D","O","C","T","Y","P","E"," ","H","T","M","L"," ","P","U","B","L","I","C">>,
     <<" ","\n">> \o head_html,
     <<" ","\n">>}

\* a body of n bytes that starts with the bytes h
Body(h, n) == [head |-> h, fill |-> n - Len(h)]

AllBodies ==
    {Body(h, n) : h \in Heads, n \in {MIN_FILE_SIZE - 1, MIN_FILE_SIZE}}
    \cup {Body(h, Len(h)) : h \in Heads} \cup {NoBody}

BatchBodies == {Body(head_pdf, MIN_FILE_SIZE), Body(head_zip, MIN_FILE_SIZE + 1),
                Body(head_pdf, MIN_FILE_SIZE - 1), Body(head_html, MIN_FILE_SIZE)}

headers_none == [disposition |-> <<>>, content_type |-> <<>>]
\* header sets the hosts send: none; a media type; a media type with a
\* parameter; a file name and a media type that disagree
AllHeaders ==
    {headers_none,
     [disposition |-> <<>>, content_type |-> MIME_TO_EXT[1][1]],
     [disposition |-> <<>>, content_type |-> <<"t","e","x","t","/","h","t","m","l",";"," ","c","h","a","r","s","e","t","=","u","t","f","-","8">>],
     [disposition |-> 
         <<"a","t","t","a","c","h","m","e","n","t",";"," ","f","i","l","e","n","a","m","e","=","\"","r",".","d","o","c","x","\"">>,
      content_type |-> MIME_TO_EXT[1][1]]}

ServedBodies == IF mode = "batch" THEN BatchBodies ELSE AllBodies
ServedHeaders == IF mode = "batch" THEN {headers_none} ELSE AllHeaders
ServedResponses == {[headers |-> h, body |-> b] : h \in ServedHeaders, b \in ServedBodies}

\* str(e) of the exception a strategy reports
DetailOf(who) == "str(" \o who \o ")"

(***************************************************************************)
(* download_with_requests, app.py:122-167                                  *)
(***************************************************************************)
NoRq == [log |-> <<>>, response |-> NoResponse, has_content |-> FALSE,
         result |-> NoResult]
NoAttempt == [calls |-> <<>>, req |-> NoResult, sel |-> NoResult, raised |-> None,
              result |-> NoResult]

\* dwr_entry without the warm-up requests
dwr_entry_no_warmup(url) == "dwr_get"

\* the first step of the strategy for a URL (the branches of lines 127, 139, 145)
dwr_entry(url) == IF url.site = "other" THEN "dwr_get" ELSE "dwr_warmup"

\* where control goes when download_with_requests returns
dwr_return(frame, result) ==
    /\ rq' = [frame EXCEPT !.result = result]
    /\ pc' = IF mode = "batch" THEN "dfa_after_requests" ELSE "done"
    /\ attempt' = [attempt EXCEPT !.req = result]

\* where control goes when an exception leaves download_with_requests
dwr_raise(frame, exc) ==
    /\ rq' = frame
    /\ pc' = IF mode = "batch" THEN "dsd_except" ELSE "done"
    /\ attempt' = [attempt EXCEPT !.raised = exc]

\* the frame after one more GET was issued; ok tells whether the call returned
\* (for the alternate URL and the target: returned and passed raise_for_status)
Requested(what, referer, ok) ==
    [rq EXCEPT !.log = Append(@, [what |-> what, referer |-> referer, ok |-> ok])]

\* line 161-162: a requests exception ends the strategy
dwr_transport_error(frame) ==
    dwr_return(frame, Failure("DOWNLOAD_FAILED_EXCEPTION", DetailOf("requests")))

\* lines 128 and 141: GET of the host root
dwr_warmup_root ==
    /\ pc = "dwr_warmup"
    /\ \E ok \in BOOLEAN :
         LET frame == Requested(call.url.site \o "_root", None, ok)
         IN IF ok
            THEN /\ rq' = frame
                 /\ pc' = IF call.url.site = "nse" THEN "dwr_warmup_listing"
                          ELSE IF call.url.viewer /\ call.url.pname THEN "dwr_get_alt"
                          ELSE "dwr_get"
                 /\ UNCHANGED attempt
            ELSE dwr_transport_error(frame)
    /\ UNCHANGED <<mode, links, doc_types, filtered_links, i, file_contents_for_zip,
                   failed_downloads_details, folder, call, sel, history, reply, fn>>

\* line 143: GET of the NSE listing page
dwr_warmup_listing ==
    /\ pc = "dwr_warmup_listing"
    /\ \E ok \in BOOLEAN :
         LET frame == Requested("nse_listing", "nse_listing", ok)
         IN IF ok
            THEN /\ rq' = frame
                 /\ pc' = "dwr_get"
                 /\ UNCHANGED attempt
            ELSE dwr_transport_error(frame)
    /\ UNCHANGED <<mode, links, doc_types, filtered_links, i, file_contents_for_zip,
                   failed_downloads_details, folder, call, sel, history, reply, fn>>

\* dwr_get_alt that requests the original URL whatever the alternate URL answered
dwr_get_alt_then_original ==
    /\ pc = "dwr_get_alt"
    /\ \E ok \in BOOLEAN : rq' = Requested("alt", "bse_ann", ok)
    /\ pc' = "dwr_get"
    /\ UNCHANGED <<mode, links, doc_types, filtered_links, i, file_contents_for_zip,
                   failed_downloads_details, folder, call, sel, attempt, history, reply, fn>>

\* line 135: GET of the direct-attachment URL derived from Pname; a requests
\* exception (raise_for_status included) falls back to the original URL
dwr_get_alt ==
    /\ pc = "dwr_get_alt"
    /\ \/ \E r \in ServedResponses :
            /\ rq' = [Requested("alt", "bse_ann", TRUE) EXCEPT !.response = r]
            /\ pc' = "dwr_stream"
       \/ /\ rq' = Requested("alt", "bse_ann", FALSE)
          /\ pc' = "dwr_get"
    /\ UNCHANGED <<mode, links, doc_types, filtered_links, i, file_contents_for_zip,
                   failed_downloads_details, folder, call, sel, attempt, history, reply, fn>>

\* the Referer header the target is requested with (lines 129, 134, 142, 145)
target_referer(url) ==
    IF url.site = "bse"
    THEN IF url.viewer /\ url.pname THEN "bse_ann" ELSE "bse_root"
    ELSE IF url.site = "nse" THEN "nse_listing"
    ELSE None

\* lines 136, 137, 138, 144, 145: GET of the target URL and raise_for_status
dwr_get ==
    /\ pc = "dwr_get"
    /\ \/ \E r \in ServedResponses :
            /\ rq' = [Requested("target", target_referer(call.url), TRUE)
                         EXCEPT !.response = r]
            /\ pc' = "dwr_stream"
            /\ UNCHANGED attempt
       \/ dwr_transport_error(Requested("target", target_referer(call.url), FALSE))
    /\ UNCHANGED <<mode, links, doc_types, filtered_links, i, file_contents_for_zip,
                   failed_downloads_details, folder, call, sel, history, reply, fn>>

\* line 165: what the finally clause leaves in the folder
dwr_finally(files, name, has_content, content) ==
    IF name \in files /\ (~has_content \/ ~TruthyBytes(content) \/ BodyLen(content) < MIN_FILE_SIZE)
    THEN files \ {name}
    ELSE files

\* dwr_validate with the size test off by one (`<=` for `<`)
dwr_validate_off_by_one(files, name, content) ==
    IF LooksLikeHtml(content)
    THEN <<Failure("DOWNLOAD_FAILED_HTML_CONTENT", None), files \ {name}>>
    ELSE IF BodyLen(content) <= MIN_FILE_SIZE
    THEN <<Failure("DOWNLOAD_FAILED_TOO_SMALL", None), files \ {name}>>
    ELSE <<Success(join(folder_path, name), content), files>>

\* lines 153-160: validation of the streamed body; <<result, folder>>
dwr_validate(files, name, content) ==
    IF LooksLikeHtml(content)
    THEN <<Failure("DOWNLOAD_FAILED_HTML_CONTENT", None), files \ {name}>>
    ELSE IF BodyLen(content) < MIN_FILE_SIZE
    THEN <<Failure("DOWNLOAD_FAILED_TOO_SMALL", None), files \ {name}>>
    ELSE <<Success(join(folder_path, name), content), files>>

\* lines 147-167: resolve the extension, stream the body to disk, validate,
\* clean up. The stream either completes, or is cut by a requests exception,
\* or the file cannot be opened or written (OSError, not caught here).
dwr_stream ==
    /\ pc = "dwr_stream"
    /\ LET file_ext == get_extension_from_response(rq.response, call.url, call.doc_type)
           name == call.base_name_no_ext \o file_ext
           content == rq.response.body
       IN  \/ LET v == dwr_validate(folder \cup {name}, name, content)
              IN  /\ folder' = dwr_finally(v[2], name, TRUE, content)
                  /\ dwr_return([rq EXCEPT !.has_content = TRUE], v[1])
           \/ /\ folder' = dwr_finally(folder \cup {name}, name, FALSE, NoBody)
              /\ dwr_transport_error(rq)
           \/ /\ folder' = dwr_finally(folder, name, FALSE, NoBody)
              /\ dwr_raise(rq, "OSError")
           \/ /\ folder' = dwr_finally(folder \cup {name}, name, FALSE, NoBody)
              /\ dwr_raise(rq, "OSError")
    /\ UNCHANGED <<mode, links, doc_types, filtered_links, i, file_contents_for_zip,
                   failed_downloads_details, call, sel, history, reply, fn>>

(***************************************************************************)
(* download_with_selenium, app.py:169-251                                  *)
(***************************************************************************)
NoSel == [driver |-> "none", temp_dir |-> "none", log |-> <<>>,
          response |-> NoResponse, pending |-> NoResult, result |-> NoResult]

SEL_GENERAL == Failure("DOWNLOAD_FAILED_EXCEPTION_SEL_GENERAL", DetailOf("selenium"))
SEL_COOKIE == Failure("DOWNLOAD_FAILED_EXCEPTION_SEL_COOKIE", DetailOf("cookie"))
DRIVER_INIT_ERROR == Failure("SELENIUM_DRIVER_INIT_ERROR", DetailOf("driver"))

\* a return statement inside the outer try: the finally clause runs next
dws_leave(frame, outcome) ==
    /\ sel' = [frame EXCEPT !.pending = outcome]
    /\ pc' = "dws_finally"

Did(step) == [sel EXCEPT !.log = Append(@, step)]
\* lines 209 and 221: the copy that is too small was removed from the folder
Removed(frame) == [frame EXCEPT !.log = Append(@, "removed")]

\* lines 170-184: the download directory and the browser
dws_setup ==
    /\ pc = "dws_setup"
    /\ \/ dws_leave(sel, SEL_GENERAL)                          \* mkdtemp raises
       \/ dws_leave([sel EXCEPT !.temp_dir = "exists"],        \* webdriver.Chrome raises
                    DRIVER_INIT_ERROR)
       \/ dws_leave([sel EXCEPT !.temp_dir = "exists",         \* set_page_load_timeout raises
                                !.driver = "running"],
                    DRIVER_INIT_ERROR)
       \/ /\ sel' = [sel EXCEPT !.temp_dir = "exists", !.driver = "running"]
          /\ pc' = "dws_navigate"
    /\ UNCHANGED <<mode, links, doc_types, filtered_links, i, file_contents_for_zip,
                   failed_downloads_details, folder, call, rq, attempt, history, reply, fn>>

\* lines 186-190: the pages the browser is sent to, in order
dws_plan(url) ==
    IF url.site = "bse" THEN <<"nav_bse_root", "nav_target">>
    ELSE IF url.site = "nse" THEN <<"nav_nse_root", "nav_nse_listing", "nav_target">>
    ELSE <<"nav_target">>

\* lines 186-190: warm-up and target navigation; any driver.get may raise
dws_navigate ==
    /\ pc = "dws_navigate"
    /\ LET plan == dws_plan(call.url)
       IN  \E k \in 1..Len(plan) :
             LET frame == [sel EXCEPT !.log = @ \o SubSeq(plan, 1, k)]
             IN  \/ /\ k = Len(plan)
                    /\ sel' = frame
                    /\ pc' = "dws_poll"
                 \/ dws_leave(frame, SEL_GENERAL)
    /\ UNCHANGED <<mode, links, doc_types, filtered_links, i, file_contents_for_zip,
                   failed_downloads_details, folder, call, rq, attempt, history, reply, fn>>

\* dws_after_poll without the test of the document type
dws_after_poll_always_inpage == "dws_inpage"

\* the fallback that follows the downloaded-file step (line 210)
dws_after_poll == IF call.doc_type # "PPT" THEN "dws_inpage" ELSE "dws_cookie"

\* lines 197-201: the extension given to a downloaded file
dws_downloaded_ext(original_ext) ==
    IF PlausibleExt(original_ext) THEN lower(original_ext)
    ELSE lower(get_extension_from_response(NoResponse, call.url, call.doc_type))

\* lines 206-209 and 218-221: the size test of the first two fallbacks;
\* TRUE when the bytes are returned, FALSE when the copy is removed
dws_accept(content_bytes) == BodyLen(content_bytes) >= MIN_FILE_SIZE

\* lines 191-209: poll the download directory, copy and size-check the file
dws_poll ==
    /\ pc = "dws_poll"
    /\ LET frame == Did("poll")
       IN  \/ /\ sel' = frame                                   \* nothing within the timeout
              /\ pc' = dws_after_poll
              /\ UNCHANGED folder
           \/ \E e \in {EXT_PDF, <<>>}, content_bytes \in ServedBodies :
                LET name == call.base_name_no_ext \o dws_downloaded_ext(e)
                IN  IF dws_accept(content_bytes)
                    THEN /\ folder' = folder \cup {name}
                         /\ dws_leave(frame, Success(join(folder_path, name), content_bytes))
                    ELSE /\ folder' = folder \ {name}
                         /\ sel' = Removed(frame)
                         /\ pc' = dws_after_poll
    /\ UNCHANGED <<mode, links, doc_types, filtered_links, i, file_contents_for_zip,
                   failed_downloads_details, call, rq, attempt, history, reply, fn>>

\* lines 210-222: in-page PDF extraction; exceptions are swallowed
dws_inpage ==
    /\ pc = "dws_inpage"
    /\ LET frame == Did("inpage")
       IN  \/ /\ sel' = frame                                   \* no viewer, no data URI, or an exception
              /\ pc' = "dws_cookie"
              /\ UNCHANGED folder
           \/ \E content_bytes \in ServedBodies :
                LET name == call.base_name_no_ext \o EXT_PDF
                IN  IF dws_accept(content_bytes)
                    THEN /\ folder' = folder \cup {name}
                         /\ dws_leave(frame, Success(join(folder_path, name), content_bytes))
                    ELSE /\ folder' = folder \ {name}
                         /\ sel' = Removed(frame)
                         /\ pc' = "dws_cookie"
    /\ UNCHANGED <<mode, links, doc_types, filtered_links, i, file_contents_for_zip,
                   failed_downloads_details, call, rq, attempt, history, reply, fn>>

\* dws_cookie_validate that, like the first two fallbacks, cleans up a body
\* that is too small and falls through to the return of line 245
dws_cookie_validate_falls_through(files, name, content_bytes) ==
    IF LooksLikeHtml(content_bytes)
    THEN <<Failure("DOWNLOAD_FAILED_HTML_CONTENT", None), files \ {name}>>
    ELSE IF BodyLen(content_bytes) >= MIN_FILE_SIZE
    THEN <<Success(join(folder_path, name), content_bytes), files>>
    ELSE <<Failure("DOWNLOAD_FAILED", None), files \ {name}>>

\* lines 235-241: validation of the body of the cookie-transfer GET; <<result, folder>>
dws_cookie_validate(files, name, content_bytes) ==
    IF LooksLikeHtml(content_bytes)
    THEN <<Failure("DOWNLOAD_FAILED_HTML_CONTENT", None), files \ {name}>>
    ELSE IF BodyLen(content_bytes) >= MIN_FILE_SIZE
    THEN <<Success(join(folder_path, name), content_bytes), files>>
    ELSE <<Failure("DOWNLOAD_FAILED_TOO_SMALL", None), files \ {name}>>

\* lines 223-246: GET with the browser's cookies. Every path of the inner try
\* returns or raises, so line 245 is never reached.
dws_cookie ==
    /\ pc = "dws_cookie"
    /\ \/ /\ dws_leave(Did("get_cookies"), SEL_GENERAL)         \* driver.get_cookies raises
          /\ UNCHANGED folder
       \/ /\ dws_leave(Did("cookie_get"), SEL_COOKIE)           \* requests.get / raise_for_status
          /\ UNCHANGED folder
       \/ \E r \in ServedResponses :
            LET name == call.base_name_no_ext
                        \o get_extension_from_response(r, call.url, call.doc_type)
                v == dws_cookie_validate(folder \cup {name}, name, r.body)
            IN  \/ /\ folder' = v[2]
                   /\ dws_leave([Did("cookie_get") EXCEPT !.response = r], v[1])
                \/ /\ folder' = folder \cup {name}              \* the stream is cut
                   /\ dws_leave(Did("cookie_get"), SEL_COOKIE)
    /\ UNCHANGED <<mode, links, doc_types, filtered_links, i, file_contents_for_zip,
                   failed_downloads_details, call, rq, attempt, history, reply, fn>>

\* line 248: TRUE when the finally clause quits the browser
dws_quits(driver) == driver = "running"

\* lines 247-251: the finally clause. driver.quit() may raise; the exception
\* then replaces the pending return and shutil.rmtree is not reached.
dws_finally ==
    /\ pc = "dws_finally"
    /\ \/ /\ sel' = [sel EXCEPT !.driver = IF dws_quits(@) THEN "quit" ELSE @,
                                !.temp_dir = IF @ = "exists" THEN "removed" ELSE @,
                                !.result = sel.pending]
          /\ pc' = IF mode = "batch" THEN "dfa_after_selenium" ELSE "done"
          /\ attempt' = [attempt EXCEPT !.sel = sel.pending]
       \/ /\ dws_quits(sel.driver)
          /\ \E d \in {"running", "quit"} : sel' = [sel EXCEPT !.driver = d]
          /\ pc' = IF mode = "batch" THEN "dsd_except" ELSE "done"
          /\ attempt' = [attempt EXCEPT !.raised = "WebDriverException"]
    /\ UNCHANGED <<mode, links, doc_types, filtered_links, i, file_contents_for_zip,
                   failed_downloads_details, folder, call, rq, history, reply, fn>>

(***************************************************************************)
(* download_file_attempt, app.py:253-263                                   *)
(***************************************************************************)
\* `"EXCEPTION" in error`: the codes whose text contains EXCEPTION
HasException(error) ==
    error \in {"DOWNLOAD_FAILED_EXCEPTION", "DOWNLOAD_FAILED_EXCEPTION_SEL_COOKIE",
               "DOWNLOAD_FAILED_EXCEPTION_SEL_GENERAL"}

\* lines 255 and 257: `path and content`
Yielded(result) == Truthy(result.path) /\ TruthyBytes(result.content)

\* final_failure with lines 259 and 260 swapped: Direct's exception first
final_failure_direct_first(req, s) ==
    IF s.error = "SELENIUM_DRIVER_INIT_ERROR"
    THEN Failure("SELENIUM_DRIVER_INIT_ERROR", s.detail)
    ELSE IF req.error # None /\ HasException(req.error) THEN Failure(req.error, req.detail)
    ELSE IF s.error # None /\ HasException(s.error) THEN Failure(s.error, s.detail)
    ELSE Failure(IF s.error # None THEN s.error
                 ELSE IF req.error # None THEN req.error ELSE "DOWNLOAD_FAILED",
                 IF s.error # None THEN s.detail ELSE req.detail)

\* lines 258-263: the failure reported when neither strategy yielded a file
final_failure(req, s) ==
    IF s.error = "SELENIUM_DRIVER_INIT_ERROR"
    THEN Failure("SELENIUM_DRIVER_INIT_ERROR", s.detail)
    ELSE IF s.error # None /\ HasException(s.error) THEN Failure(s.error, s.detail)
    ELSE IF req.error # None /\ HasException(req.error) THEN Failure(req.error, req.detail)
    ELSE Failure(IF s.error # None THEN s.error
                 ELSE IF req.error # None THEN req.error ELSE "DOWNLOAD_FAILED",
                 IF s.error # None THEN s.detail ELSE req.detail)

\* dfa_after_requests that starts the Rendered strategy whatever Direct returned
dfa_after_requests_always_selenium ==
    /\ pc = "dfa_after_requests"
    /\ attempt' = [attempt EXCEPT !.calls = Append(@, "selenium")]
    /\ sel' = NoSel
    /\ pc' = "dws_setup"
    /\ rq' = NoRq
    /\ UNCHANGED <<mode, links, doc_types, filtered_links, i, file_contents_for_zip,
                   failed_downloads_details, folder, call, history, reply, fn>>

\* lines 254-256: the Direct strategy has returned
dfa_after_requests ==
    /\ pc = "dfa_after_requests"
    /\ IF Yielded(attempt.req)
       THEN /\ attempt' = [attempt EXCEPT !.result = Success(attempt.req.path, attempt.req.content)]
            /\ pc' = "dsd_result"
            /\ UNCHANGED sel
       ELSE /\ attempt' = [attempt EXCEPT !.calls = Append(@, "selenium")]
            /\ sel' = NoSel
            /\ pc' = "dws_setup"
    /\ rq' = NoRq
    /\ UNCHANGED <<mode, links, doc_types, filtered_links, i, file_contents_for_zip,
                   failed_downloads_details, folder, call, history, reply, fn>>

\* lines 256-263: the Rendered strategy has returned
dfa_after_selenium ==
    /\ pc = "dfa_after_selenium"
    /\ attempt' = [attempt EXCEPT !.result =
                      IF Yielded(attempt.sel)
                      THEN Success(attempt.sel.path, attempt.sel.content)
                      ELSE final_failure(attempt.req, attempt.sel)]
    /\ pc' = "dsd_result"
    /\ UNCHANGED <<mode, links, doc_types, filtered_links, i, file_contents_for_zip,
                   failed_downloads_details, folder, call, rq, sel, history, reply, fn>>

(***************************************************************************)
(* download_selected_documents, app.py:266-292                             *)
(***************************************************************************)
NoCall == [url |-> url_plain, base_name_no_ext |-> <<>>, doc_type |-> "PPT"]
NoReply == [status |-> "none", downloaded_count |-> 0, total_count |-> 0,
            failed_docs |-> 0]
\* no function is being called on its own
NoFn == [args |-> <<>>, result |-> None]

\* lines 268 and 332: the references of the selected types, in list order
filter_links(all_links, types) == SelectSeq(all_links, LAMBDA link : link.type \in types)

\* str(n) for a natural number
RECURSIVE str(_)
str(n) ==
    LET digit == <<"0","1","2","3","4","5","6","7","8","9">>[(n % 10) + 1]
    IN  IF n < 10 THEN <<digit>> ELSE str(n \div 10) \o <<digit>>

Keys(dict) == {dict[k].name : k \in DOMAIN dict}

\* dict[key] = value: an existing key keeps its place and gets the new value
dict_set(dict, key, value) ==
    IF key \in Keys(dict)
    THEN [k \in DOMAIN dict |-> IF dict[k].name = key
                                THEN [name |-> key, content |-> value] ELSE dict[k]]
    ELSE Append(dict, [name |-> key, content |-> value])

\* free_name without the loop: the file name is used as it is
free_name_unchecked(filename_for_zip, name_part, ext_part, counter, dict) ==
    filename_for_zip

\* line 280: the while loop that looks for a name not yet in the mapping
RECURSIVE free_name(_, _, _, _, _)
free_name(filename_for_zip, name_part, ext_part, counter, dict) ==
    IF filename_for_zip \in Keys(dict)
    THEN free_name(name_part \o <<"_">> \o str(counter) \o ext_part,
                   name_part, ext_part, counter + 1, dict)
    ELSE filename_for_zip

\* lines 278-280: the key a downloaded file is stored under
zip_key(temp_file_path, dict) ==
    LET filename_for_zip == basename(temp_file_path)
        parts == splitext(filename_for_zip)
    IN  free_name(filename_for_zip, parts[1], parts[2], 1, dict)

\* lines 273-276: the next reference, or the return of line 292
dsd_loop ==
    /\ pc = "dsd_loop"
    /\ IF i <= Len(filtered_links)
       THEN LET link_info == filtered_links[i]
            IN  /\ call' = [url |-> link_info.url,
                            base_name_no_ext |-> format_filename_base(link_info.date, link_info.type),
                            doc_type |-> link_info.type]
                /\ attempt' = [NoAttempt EXCEPT !.calls = <<"requests">>]
                /\ pc' = dwr_entry(link_info.url)
       ELSE /\ pc' = "fd_reply"
            /\ UNCHANGED <<call, attempt>>
    /\ UNCHANGED <<mode, links, doc_types, filtered_links, i, file_contents_for_zip,
                   failed_downloads_details, folder, rq, sel, history, reply, fn>>

failure_entry(reason, reason_detail) ==
    [url |-> call.url, type |-> call.doc_type, base_name |-> call.base_name_no_ext,
     reason |-> reason, reason_detail |-> reason_detail]

\* lines 277-288: record what download_file_attempt returned
dsd_result ==
    /\ pc = "dsd_result"
    /\ IF Yielded(attempt.result)
       THEN /\ file_contents_for_zip' =
                   dict_set(file_contents_for_zip,
                            zip_key(attempt.result.path, file_contents_for_zip),
                            attempt.result.content)
            /\ history' = Append(history, "archived")
            /\ UNCHANGED failed_downloads_details
       ELSE /\ failed_downloads_details' =
                   Append(failed_downloads_details,
                          failure_entry(attempt.result.error, attempt.result.detail))
            /\ history' = Append(history, "failed")
            /\ UNCHANGED file_contents_for_zip
    /\ i' = i + 1
    /\ pc' = "dsd_loop"
    /\ call' = NoCall /\ rq' = NoRq /\ sel' = NoSel /\ attempt' = NoAttempt
    /\ UNCHANGED <<mode, links, doc_types, filtered_links, folder, reply, fn>>

\* dsd_except that swallows the exception without recording it
dsd_except_silent ==
    /\ pc = "dsd_except"
    /\ i' = i + 1
    /\ pc' = "dsd_loop"
    /\ call' = NoCall /\ rq' = NoRq /\ sel' = NoSel /\ attempt' = NoAttempt
    /\ UNCHANGED <<mode, links, doc_types, filtered_links, file_contents_for_zip,
                   failed_downloads_details, folder, history, reply, fn>>

\* dsd_except that records the failure and then leaves the loop
dsd_except_abort ==
    /\ pc = "dsd_except"
    /\ failed_downloads_details' =
           Append(failed_downloads_details,
                  failure_entry("LOOP_PROCESSING_ERROR", DetailOf(attempt.raised)))
    /\ history' = Append(history, "raised")
    /\ i' = i + 1
    /\ pc' = "fd_reply"
    /\ call' = NoCall /\ rq' = NoRq /\ sel' = NoSel /\ attempt' = NoAttempt
    /\ UNCHANGED <<mode, links, doc_types, filtered_links, file_contents_for_zip,
                   folder, reply, fn>>

\* lines 289-291: an exception left download_file_attempt
dsd_except ==
    /\ pc = "dsd_except"
    /\ failed_downloads_details' =
           Append(failed_downloads_details,
                  failure_entry("LOOP_PROCESSING_ERROR", DetailOf(attempt.raised)))
    /\ history' = Append(history, "raised")
    /\ i' = i + 1
    /\ pc' = "dsd_loop"
    /\ call' = NoCall /\ rq' = NoRq /\ sel' = NoSel /\ attempt' = NoAttempt
    /\ UNCHANGED <<mode, links, doc_types, filtered_links, file_contents_for_zip,
                   folder, reply, fn>>

(***************************************************************************)
(* fetch_documents, app.py:332-373 (from the parsed links on)              *)
(***************************************************************************)
\* lines 332-338 and 266-272: filter, then enter download_selected_documents
fd_download ==
    /\ pc = "fd_download"
    /\ LET links_to_download == filter_links(links, doc_types)
       IN  IF links_to_download = <<>>
           THEN /\ reply' = [NoReply EXCEPT !.status = "error_no_documents"]
                /\ pc' = "done"
                /\ UNCHANGED filtered_links
           ELSE /\ filtered_links' = filter_links(links_to_download, doc_types)
                /\ pc' = "dsd_loop"
                /\ UNCHANGED reply
    /\ UNCHANGED <<mode, links, doc_types, i, file_contents_for_zip,
                   failed_downloads_details, folder, call, rq, sel, attempt, history, fn>>

\* lines 339-373: the counts reported to the caller
fd_reply ==
    /\ pc = "fd_reply"
    /\ LET actual_downloaded_count == Cardinality(Keys(file_contents_for_zip))
           total_attempted_count == Len(filter_links(links, doc_types))
       IN  reply' = [status |-> IF actual_downloaded_count = 0
                                THEN "error_none_downloaded" ELSE "ok",
                     downloaded_count |-> actual_downloaded_count,
                     total_count |-> total_attempted_count,
                     failed_docs |-> Len(failed_downloads_details)]
    /\ pc' = "done"
    /\ UNCHANGED <<mode, links, doc_types, filtered_links, i, file_contents_for_zip,
                   failed_downloads_details, folder, call, rq, sel, attempt, history, fn>>

(***************************************************************************)
(* get_webpage_content, app.py:82-99                                       *)
(* An exception is named by its class in requests.exceptions; Bases gives *)
(* the classes of that module a class derives from.                        *)
(***************************************************************************)
Bases(cls) ==
    CASE cls = "HTTPError" -> {"RequestException"}
      [] cls = "ConnectionError" -> {"RequestException"}
      [] cls = "ProxyError" -> {"ConnectionError"}
      [] cls = "SSLError" -> {"ConnectionError"}
      [] cls = "Timeout" -> {"RequestException"}
      [] cls = "ConnectTimeout" -> {"ConnectionError", "Timeout"}
      [] cls = "ReadTimeout" -> {"Timeout"}
      [] cls = "TooManyRedirects" -> {"RequestException"}
      [] cls = "ChunkedEncodingError" -> {"RequestException"}
      [] OTHER -> {}

\* the classes an exception of class cls is an instance of
RECURSIVE Ancestors(_)
Ancestors(cls) == {cls} \cup UNION {Ancestors(b) : b \in Bases(cls)}

\* lines 90, 95, 97, 98: the except clauses, in the order they are tried
ExceptClauses == <<"HTTPError", "ConnectionError", "Timeout", "RequestException">>

\* the index of the except clause that handles cls, 0 when none does
handler(cls) ==
    IF \E k \in DOMAIN ExceptClauses : ExceptClauses[k] \in Ancestors(cls)
    THEN CHOOSE k \in DOMAIN ExceptClauses :
            /\ ExceptClauses[k] \in Ancestors(cls)
            /\ \A m \in 1..(k - 1) : ExceptClauses[m] \notin Ancestors(cls)
    ELSE 0

\* response.raise_for_status(): the statuses that raise HTTPError
raise_for_status(status) == status >= 400 /\ status < 600

\* lines 91-99: the value returned for an exception of class cls
gwc_error(cls, status) ==
    LET k == handler(cls)
    IN  IF k = 0 THEN [error |-> "escaped", status |-> 0]
        ELSE IF ExceptClauses[k] = "HTTPError"
             THEN IF status = 404 THEN [error |-> "not_found", status |-> 0]
                  ELSE [error |-> "http_error", status |-> status]
        ELSE IF ExceptClauses[k] = "ConnectionError" THEN [error |-> "connection_error", status |-> 0]
        ELSE IF ExceptClauses[k] = "Timeout" THEN [error |-> "timeout", status |-> 0]
        ELSE [error |-> "fetch_error", status |-> 0]

\* line 86: the GET of the company page; it returns a response or raises
gwc_get ==
    /\ pc = "gwc_get"
    /\ \/ \E status \in {200, 400, 403, 404, 429, 500, 503} :
            fn' = [fn EXCEPT !.gets = Append(@, fn.args), !.status = status]
       \/ \E cls \in {"ConnectionError", "ProxyError", "SSLError", "Timeout",
                     "ConnectTimeout", "ReadTimeout", "TooManyRedirects",
                     "ChunkedEncodingError"} :
            fn' = [fn EXCEPT !.gets = Append(@, fn.args), !.raised = cls]
    /\ pc' = "gwc_return"
    /\ UNCHANGED <<mode, links, doc_types, filtered_links, i, file_contents_for_zip,
                   failed_downloads_details, folder, call, rq, sel, attempt, history, reply>>

\* lines 87-99: raise_for_status, then the return of the page or of an error
gwc_return ==
    /\ pc = "gwc_return"
    /\ fn' = [fn EXCEPT !.result =
                 IF fn.raised # None THEN gwc_error(fn.raised, 0)
                 ELSE IF raise_for_status(fn.status) THEN gwc_error("HTTPError", fn.status)
                 ELSE [error |-> None, status |-> fn.status]]
    /\ pc' = "done"
    /\ UNCHANGED <<mode, links, doc_types, filtered_links, i, file_contents_for_zip,
                   failed_downloads_details, folder, call, rq, sel, attempt, history, reply>>

(***************************************************************************)
(* format_filename_base called on its own, app.py:70-79                    *)
(***************************************************************************)
ffb_call ==
    /\ pc = "ffb_call"
    /\ fn' = [fn EXCEPT !.result = format_filename_base(fn.args.date_str, fn.args.doc_type)]
    /\ pc' = "done"
    /\ UNCHANGED <<mode, links, doc_types, filtered_links, i, file_contents_for_zip,
                   failed_downloads_details, folder, call, rq, sel, attempt, history, reply>>

(***************************************************************************)
(* get_extension_from_response called on its own, app.py:39-68             *)
(* A host announces a file name in one of the forms of Content-Disposition *)
(* and a media type, with or without parameters, in Content-Type.          *)
(***************************************************************************)
name_spaced == <<"A","n","n","u","a","l"," ","R","e","p","o","r","t",".","d","o","c","x">>
FileNames ==
    {name_spaced,
     <<"r",".","d","o","c","x">>,
     <<"R",".","P","D","F">>,
     <<"r","e","p","o","r","t">>,
     <<"a",".","d","o","w","n","l","o","a","d">>}

\* percent-encoding of the blanks of a name, as filename*= requires
quote(name) ==
    LET esc(c) == IF c = " " THEN <<"%","2","0">> ELSE <<c>>
        F[k \in 0..Len(name)] == IF k = 0 THEN <<>> ELSE F[k - 1] \o esc(name[k])
    IN  F[Len(name)]

\* the Content-Disposition value that announces name in the given form
disposition_header(form, name) ==
    CASE form = "quoted" -> <<"a","t","t","a","c","h","m","e","n","t",";"," ","f","i","l","e","n","a","m","e","=","\"">> \o name \o <<"\"">>
      [] form = "token" -> <<"a","t","t","a","c","h","m","e","n","t",";"," ","f","i","l","e","n","a","m","e","=">> \o name
      [] form = "star" -> <<"a","t","t","a","c","h","m","e","n","t",";"," ","f","i","l","e","n","a","m","e","*","=","U","T","F","-","8","'","'">> \o quote(name)
      [] form = "bare" -> <<"a","t","t","a","c","h","m","e","n","t">>
      [] OTHER -> <<>>

\* the Content-Type value for a media type, absent when media is empty
content_type_header(media, with_param) ==
    IF media = <<>> THEN <<>>
    ELSE IF with_param THEN <<" ">> \o media \o <<" ",";"," ","c","h","a","r","s","e","t","=","u","t","f","-","8">>
    ELSE media

gefr_call ==
    /\ pc = "gefr_call"
    /\ fn' = [fn EXCEPT !.result =
                 get_extension_from_response(fn.args.response, fn.args.url,
                                             fn.args.doc_type_for_default)]
    /\ pc' = "done"
    /\ UNCHANGED <<mode, links, doc_types, filtered_links, i, file_contents_for_zip,
                   failed_downloads_details, folder, call, rq, sel, attempt, history, reply>>

(***************************************************************************)
(* parse_html_content, app.py:101-119                                      *)
(* The page is modelled by what the selectors of lines 105, 109, 111 and   *)
(* 116 find in it: the anchors of the annual-reports list and the entries  *)
(* of the concalls list, each with its date label and its anchors.         *)
(***************************************************************************)
\* ord(c); the printable ASCII characters in code order are 32 to 95 and 97 to 126
Code(c) ==
    LET ASCII ==
            <<" ","!","\"","#","$","%","&","'","(",")","*","+",",","-",".","/","0",
              "1","2","3","4","5","6","7","8","9",":",";","<","=",">","?","@","A","B",
              "C","D","E","F","G","H","I","J","K","L","M","N","O","P","Q","R","S","T",
              "U","V","W","X","Y","Z","[","\\","]","^","_">>
        ASCII_LOWER ==
            <<"a","b","c","d","e","f","g","h","i","j","k","l","m","n","o","p","q","r",
              "s","t","u","v","w","x","y","z","{","|","}","~">>
    IN  IF c = "\t" THEN 9 ELSE IF c = "\n" THEN 10 ELSE IF c = "\r" THEN 13
        ELSE IF \E k \in DOMAIN ASCII : ASCII[k] = c
             THEN 31 + CHOOSE k \in DOMAIN ASCII : ASCII[k] = c
        ELSE 96 + CHOOSE k \in DOMAIN ASCII_LOWER : ASCII_LOWER[k] = c

\* a < b for str: the first differing character decides, a prefix is smaller
StrLess(a, b) ==
    \/ Len(a) < Len(b) /\ SubSeq(b, 1, Len(a)) = a
    \/ \E k \in 1..Len(a) :
          /\ k <= Len(b)
          /\ SubSeq(a, 1, k - 1) = SubSeq(b, 1, k - 1)
          /\ Code(a[k]) < Code(b[k])

\* str.strip()
strip_text(s) == RStripSeq(LStripSeq(s))

\* t occurs in s at position p
StartsAt(s, p, t) ==
    /\ p + Len(t) - 1 <= Len(s)
    /\ \A k \in DOMAIN t : s[p + k - 1] = t[k]

\* `t in s`
Contains(s, t) == \E p \in 1..(Len(s) + 1) : StartsAt(s, p, t)

TRANSCRIPT == <<"T","r","a","n","s","c","r","i","p","t">>
PPT == <<"P","P","T">>

\* line 107: re.search(r'Financial Year (\d{4})', text), the group or <<>>
year_match(text) ==
    LET FINANCIAL_YEAR == <<"F","i","n","a","n","c","i","a","l"," ","Y","e","a","r"," ">>
        hit(p) == /\ StartsAt(text, p, FINANCIAL_YEAR)
                  /\ p + Len(FINANCIAL_YEAR) + 3 <= Len(text)
                  /\ AllDigits(text, p + Len(FINANCIAL_YEAR), p + Len(FINANCIAL_YEAR) + 3)
    IN  IF \E p \in DOMAIN text : hit(p)
        THEN LET p == CHOOSE q \in DOMAIN text : hit(q) /\ \A m \in 1..(q - 1) : ~hit(m)
             IN  SubSeq(text, p + Len(FINANCIAL_YEAR), p + Len(FINANCIAL_YEAR) + 3)
        ELSE <<>>

\* the abbreviated month names %b accepts, letter case ignored
MonthNames == <<<<"j","a","n">>, <<"f","e","b">>, <<"m","a","r">>, <<"a","p","r">>, <<"m","a","y">>, <<"j","u","n">>, <<"j","u","l">>, <<"a","u","g">>, <<"s","e","p">>, <<"o","c","t">>, <<"n","o","v">>, <<"d","e","c">>>>

\* line 114: datetime.strptime(date_text, '%b %Y').strftime('%Y-%m'), or <<>>
\* on ValueError: a month name, blanks, four digits (not 0000), nothing else
strptime_strftime(date_text) ==
    LET n == Len(date_text)
        name == lower(SubSeq(date_text, 1, 3))
    IN  IF /\ n >= 8
           /\ \E m \in DOMAIN MonthNames : MonthNames[m] = name
           /\ \A k \in 4..(n - 4) : date_text[k] \in Whitespace
           /\ AllDigits(date_text, n - 3, n)
           /\ SubSeq(date_text, n - 3, n) # <<"0","0","0","0">>
        THEN LET m == CHOOSE m \in DOMAIN MonthNames : MonthNames[m] = name
             IN  SubSeq(date_text, n - 3, n) \o <<"-">>
                 \o (IF m < 10 THEN <<"0">> ELSE <<>>) \o str(m)
        ELSE <<>>

\* link['href']: the anchor has no href attribute
KeyError == [raised |-> "KeyError", refs |-> <<>>]

\* lines 106-108: the references of the annual-reports anchors
annual_refs(anchors) ==
    LET matches(k) == year_match(strip_text(anchors[k].text)) # <<>>
        F[k \in 0..Len(anchors)] ==
            IF k = 0 THEN <<>>
            ELSE IF matches(k)
                 THEN Append(F[k - 1], [date |-> year_match(strip_text(anchors[k].text)),
                                        type |-> "Annual_Report", url |-> anchors[k].href])
            ELSE F[k - 1]
    IN  IF \E k \in DOMAIN anchors : matches(k) /\ ~anchors[k].has_href THEN KeyError
        ELSE [raised |-> None, refs |-> F[Len(anchors)]]

\* line 116-118: the type an anchor of a concall entry is taken for, None for no reference
concall_link_type(link_tag) ==
    IF ~link_tag.concall_link THEN None
    ELSE IF Contains(link_tag.text, TRANSCRIPT) THEN "Transcript"
    ELSE IF Contains(link_tag.text, PPT) THEN "PPT"
    ELSE None

\* lines 111-118: the references of one concall entry
concall_refs(item) ==
    LET date_text == strip_text(item.date_div.text)
        \* lines 114-115: the reformatted date, the label itself when it does not parse
        date_str == IF strptime_strftime(date_text) # <<>>
                    THEN strptime_strftime(date_text) ELSE date_text
        tags == item.links
        F[k \in 0..Len(tags)] ==
            IF k = 0 THEN <<>>
            ELSE IF concall_link_type(tags[k]) # None
                 THEN Append(F[k - 1], [date |-> date_str, type |-> concall_link_type(tags[k]),
                                        url |-> tags[k].href])
            ELSE F[k - 1]
    IN  IF ~item.date_div.present THEN [raised |-> None, refs |-> <<>>]
        ELSE IF \E k \in DOMAIN tags : concall_link_type(tags[k]) # None /\ ~tags[k].has_href
             THEN KeyError
        ELSE [raised |-> None, refs |-> F[Len(tags)]]

\* sorted_by_date that returns the references in page order
sorted_as_found(all_links) == all_links

\* line 119: sorted(all_links, key=lambda x: x['date'], reverse=True); the sort
\* is stable, references with equal dates keep their order
sorted_by_date(all_links) ==
    LET insert(done, x) ==
            LET smaller == {j \in DOMAIN done : StrLess(done[j].date, x.date)}
                at == IF smaller = {} THEN Len(done) + 1
                      ELSE CHOOSE j \in smaller : \A m \in smaller : j <= m
            IN  SubSeq(done, 1, at - 1) \o <<x>> \o SubSeq(done, at, Len(done))
        S[k \in 0..Len(all_links)] ==
            IF k = 0 THEN <<>> ELSE insert(S[k - 1], all_links[k])
    IN  S[Len(all_links)]

\* lines 102-108: the empty page, else the annual-reports loop
phc_annual ==
    /\ pc = "phc_annual"
    /\ IF ~fn.args.html_content
       THEN /\ fn' = [fn EXCEPT !.result = <<>>]
            /\ pc' = "done"
       ELSE LET got == annual_refs(fn.args.annual_reports)
            IN  IF got.raised # None
                THEN /\ fn' = [fn EXCEPT !.raised = got.raised]
                     /\ pc' = "done"
                ELSE /\ fn' = [fn EXCEPT !.all_links = got.refs]
                     /\ pc' = "phc_concalls"
    /\ UNCHANGED <<mode, links, doc_types, filtered_links, i, file_contents_for_zip,
                   failed_downloads_details, folder, call, rq, sel, attempt, history, reply>>

\* lines 110-118: one pass of the loop over the concall entries
phc_concall_item ==
    /\ pc = "phc_concalls"
    /\ fn.k <= Len(fn.args.concall_items)
    /\ LET got == concall_refs(fn.args.concall_items[fn.k])
       IN  IF got.raised # None
           THEN /\ fn' = [fn EXCEPT !.raised = got.raised]
                /\ pc' = "done"
           ELSE /\ fn' = [fn EXCEPT !.all_links = @ \o got.refs, !.k = @ + 1]
                /\ pc' = "phc_concalls"
    /\ UNCHANGED <<mode, links, doc_types, filtered_links, i, file_contents_for_zip,
                   failed_downloads_details, folder, call, rq, sel, attempt, history, reply>>

\* line 119
phc_return ==
    /\ pc = "phc_concalls"
    /\ fn.k > Len(fn.args.concall_items)
    /\ fn' = [fn EXCEPT !.result = sorted_by_date(fn.all_links)]
    /\ pc' = "done"
    /\ UNCHANGED <<mode, links, doc_types, filtered_links, i, file_contents_for_zip,
                   failed_downloads_details, folder, call, rq, sel, attempt, history, reply>>

(***************************************************************************)
(* Specifications                                                          *)
(***************************************************************************)
date_year == <<"2","0","2","3">>
date_month == <<"2","0","2","3","-","0","3">>

BatchRefs ==
    {[date |-> date_year, type |-> "Annual_Report", url |-> url_plain],
     [date |-> date_month, type |-> "PPT", url |-> url_bse_ann],
     [date |-> date_month, type |-> "Transcript", url |-> url_nse]}

TypeSelections == {{"PPT", "Transcript"}, {"PPT"}}

\* the sequences over S of length at most n
SeqsUpTo(S, n) == UNION {[1..m -> S] : m \in 0..n}

CallOf(ref) == [url |-> ref.url,
                base_name_no_ext |-> format_filename_base(ref.date, ref.type),
                doc_type |-> ref.type]

SingleCalls == {CallOf([date |-> date_year, type |-> t, url |-> u]) :
                    t \in {"Transcript", "PPT"}, u \in AllUrls}

InitCommon ==
    /\ filtered_links = <<>>
    /\ i = 1
    /\ file_contents_for_zip = <<>>
    /\ failed_downloads_details = <<>>
    /\ folder = {}
    /\ rq = NoRq
    /\ sel = NoSel
    /\ history = <<>>
    /\ reply = NoReply
    /\ fn = NoFn

\* fetch_documents, once the listing page has been parsed
Init ==
    /\ mode = "batch"
    /\ pc = "fd_download"
    /\ links \in SeqsUpTo(BatchRefs, MaxLinks)
    /\ doc_types \in TypeSelections
    /\ call = NoCall
    /\ attempt = NoAttempt
    /\ InitCommon

Next ==
    \/ fd_download \/ dsd_loop
    \/ dwr_warmup_root \/ dwr_warmup_listing \/ dwr_get_alt \/ dwr_get \/ dwr_stream
    \/ dfa_after_requests
    \/ dws_setup \/ dws_navigate \/ dws_poll \/ dws_inpage \/ dws_cookie \/ dws_finally
    \/ dfa_after_selenium
    \/ dsd_result \/ dsd_except
    \/ fd_reply

Spec == Init /\ [][Next]_vars

\* one call of download_with_requests
InitDirect ==
    /\ mode = "direct"
    /\ call \in SingleCalls
    /\ pc = dwr_entry(call.url)
    /\ links = <<>>
    /\ doc_types = {}
    /\ attempt = [NoAttempt EXCEPT !.calls = <<"requests">>]
    /\ InitCommon

NextDirect ==
    \/ dwr_warmup_root \/ dwr_warmup_listing \/ dwr_get_alt \/ dwr_get \/ dwr_stream

SpecDirect == InitDirect /\ [][NextDirect]_vars

\* one call of download_with_selenium
InitRendered ==
    /\ mode = "rendered"
    /\ call \in SingleCalls
    /\ pc = "dws_setup"
    /\ links = <<>>
    /\ doc_types = {}
    /\ attempt = [NoAttempt EXCEPT !.calls = <<"selenium">>]
    /\ InitCommon

NextRendered ==
    \/ dws_setup \/ dws_navigate \/ dws_poll \/ dws_inpage \/ dws_cookie \/ dws_finally

SpecRendered == InitRendered /\ [][NextRendered]_vars

\* one call of either download strategy
InitStrategy == InitDirect \/ InitRendered

NextStrategy == NextDirect \/ NextRendered

SpecStrategy == InitStrategy /\ [][NextStrategy]_vars

\* the variables of the download pipeline, idle
Idle ==
    /\ links = <<>>
    /\ doc_types = {}
    /\ call = NoCall
    /\ attempt = NoAttempt
    /\ filtered_links = <<>>
    /\ i = 1
    /\ file_contents_for_zip = <<>>
    /\ failed_downloads_details = <<>>
    /\ folder = {}
    /\ rq = NoRq
    /\ sel = NoSel
    /\ history = <<>>
    /\ reply = NoReply

\* one call of get_webpage_content
InitFetch ==
    /\ mode = "fetch"
    /\ pc = "gwc_get"
    /\ Idle
    /\ \E stock_name \in {"TCS", "INFY", "RELIANCE", "HDFCBANK"} :
          fn = [args |-> stock_name, gets |-> <<>>, status |-> 0, raised |-> None,
                result |-> None]

NextFetch == gwc_get \/ gwc_return

SpecFetch == InitFetch /\ [][NextFetch]_vars

\* one call of format_filename_base.  The date strings are the formats of the
\* listing page, near misses of them, and every short string over a few characters
InitFormat ==
    /\ mode = "format"
    /\ pc = "ffb_call"
    /\ Idle
    /\ LET date_dmy == <<"0","5","/","0","4","/","2","0","2","3">>
           DateStrings ==
               SeqsUpTo({"2", "-", "/", " ", "\n", "Q"}, MaxDateLen)
               \cup {date_year, date_month, date_dmy,
                     date_month \o <<"\n">>, date_dmy \o <<"\n">>, date_month \o <<" ">>,
                     <<"Q","1"," ","U","p","d","a","t","e">>,
                     <<"M","a","r",".","2","0","2","3">>,
                     <<"2","0","2","3","-","3">>, <<"5","/","4","/","2","0","2","3">>,
                     <<"F","Y","2","0","2","3","_","(","a",")">>}
       IN  \E date_str \in DateStrings, doc_type \in DocTypes :
              fn = [args |-> [date_str |-> date_str, doc_type |-> doc_type], result |-> None]

NextFormat == ffb_call

SpecFormat == InitFormat /\ [][NextFormat]_vars

\* one call of get_extension_from_response; `sent` is what the host announced.
\* The media types are those of the table, a known one in other letter case,
\* unknown ones, and the absent header
InitExtension ==
    /\ mode = "extension"
    /\ pc = "gefr_call"
    /\ Idle
    /\ LET Dispositions ==
               {[form |-> "absent", name |-> <<>>], [form |-> "bare", name |-> <<>>]}
               \cup {[form |-> f, name |-> n] : f \in {"quoted", "star"}, n \in FileNames}
               \cup {[form |-> "token", name |-> n] : n \in FileNames \ {name_spaced}}
           MediaTypes ==
               {MIME_TO_EXT[k][1] : k \in DOMAIN MIME_TO_EXT}
               \cup {<<"A","p","p","l","i","c","a","t","i","o","n","/","P","D","F">>,
                     <<"a","p","p","l","i","c","a","t","i","o","n","/",
                       "o","c","t","e","t","-","s","t","r","e","a","m">>,
                     <<"t","e","x","t","/","h","t","m","l">>,
                     <<>>}
           ExtensionUrls ==
               {url_plain, url_noext, url_bse_ann,
                [site |-> "other", viewer |-> FALSE, pname |-> FALSE,
                 path |-> <<"/","c",".","P","D","F">>],
                [site |-> "other", viewer |-> FALSE, pname |-> FALSE,
                 path |-> <<"/","d",".","d","o","w","n","l","o","a","d">>]}
       IN  \E cd \in Dispositions, media \in MediaTypes, with_param \in BOOLEAN,
              url \in ExtensionUrls, doc_type \in DocTypes :
              fn = [args |-> [response |->
                                 [headers |-> [disposition |-> disposition_header(cd.form, cd.name),
                                               content_type |-> content_type_header(media, with_param)],
                                  body |-> NoBody],
                              url |-> url,
                              doc_type_for_default |-> doc_type],
                    sent |-> [filename |-> cd.name, media |-> media],
                    result |-> None]

NextExtension == gefr_call

SpecExtension == InitExtension /\ [][NextExtension]_vars

\* anchors of the annual-reports list
a_fy2022 == [text |-> <<"F","i","n","a","n","c","i","a","l"," ","Y","e","a","r"," ","2","0","2","2">>,
             href |-> url_plain, has_href |-> TRUE]
\* anchors of a concall entry
l_transcript == [text |-> TRANSCRIPT, concall_link |-> TRUE, href |-> url_nse, has_href |-> TRUE]
l_ppt == [text |-> PPT, concall_link |-> TRUE, href |-> url_bse_ann, has_href |-> TRUE]
\* a date label of a concall entry
label_mar_2023 == <<"M","a","r"," ","2","0","2","3">>
\* concall entries: a date label (missing, well formed, padded, malformed) and
\* the anchors of the entry
ConcallItems ==
    LET DateLabels ==
            {[present |-> FALSE, text |-> <<>>],
             [present |-> TRUE, text |-> label_mar_2023],
             [present |-> TRUE, text |-> <<" ","f","e","b"," "," ","2","0","2","4"," ">>],
             [present |-> TRUE, text |-> <<"S","e","p","t"," ","2","0","2","3">>]}
        l_hindi == [text |-> TRANSCRIPT \o <<" ","(","H","i","n","d","i",")">>,
                    concall_link |-> TRUE, href |-> url_plain, has_href |-> TRUE]
        l_notes == [text |-> <<"N","o","t","e","s">>, concall_link |-> TRUE,
                    href |-> url_noext, has_href |-> TRUE]
        l_rec == [text |-> TRANSCRIPT, concall_link |-> FALSE, href |-> url_plain,
                  has_href |-> TRUE]
        l_nohref == [text |-> PPT, concall_link |-> TRUE, href |-> url_plain,
                     has_href |-> FALSE]
        LinkLists == {<<>>, <<l_transcript, l_ppt>>, <<l_transcript, l_hindi>>,
                      <<l_ppt, l_notes, l_rec>>, <<l_nohref>>}
    IN  {[date_div |-> d, links |-> l] : d \in DateLabels, l \in LinkLists}

\* the page of the example: one annual report, one concall with both links
ExamplePage ==
    [html_content |-> TRUE, annual_reports |-> <<a_fy2022>>,
     concall_items |-> <<[date_div |-> [present |-> TRUE, text |-> label_mar_2023],
                          links |-> <<l_transcript, l_ppt>>]>>]

\* the pages: no page at all, or lists of annual anchors and of concall entries
Pages ==
    LET a_fy2024 == [text |-> <<" ","F","i","n","a","n","c","i","a","l"," ","Y","e","a","r"," ",
                                "2","0","2","4"," ","f","r","o","m"," ","b","s","e"," ">>,
                     href |-> url_bse, has_href |-> TRUE]
        a_other == [text |-> <<"A","n","n","u","a","l"," ","R","e","p","o","r","t"," ",
                               "2","0","2","1">>,
                    href |-> url_noext, has_href |-> TRUE]
        AnnualLists == {<<>>, <<a_fy2022>>, <<a_other, a_fy2024>>, <<a_fy2022, a_fy2024>>}
    IN  {[html_content |-> FALSE, annual_reports |-> <<>>, concall_items |-> <<>>]}
        \cup {[html_content |-> TRUE, annual_reports |-> a, concall_items |-> c] :
                 a \in AnnualLists, c \in SeqsUpTo(ConcallItems, MaxEntries)}

\* one call of parse_html_content
InitParse ==
    /\ mode = "parse"
    /\ pc = "phc_annual"
    /\ Idle
    /\ \E page \in Pages :
          fn = [args |-> page, all_links |-> <<>>, k |-> 1, raised |-> None, result |-> <<>>]

NextParse == phc_annual \/ phc_concall_item \/ phc_return

SpecParse == InitParse /\ [][NextParse]_vars

(***************************************************************************)
(* Properties                                                              *)
(***************************************************************************)
\* the file a call of download_with_requests streams its response to
DirectFile ==
    call.base_name_no_ext \o get_extension_from_response(rq.response, call.url, call.doc_type)

\* a body that, blanks trimmed, begins with <html or <!DOCTYPE html in any letter case
BeginsWithHtmlAnyCase(b) ==
    LET t == [head |-> lower(strip(b).head), fill |-> strip(b).fill]
    IN  startswith(t, lower(DOCTYPE_HTML)) \/ startswith(t, lower(HTML_TAG))

\* download_with_requests has returned after streaming a whole body
DirectStreamed == mode = "direct" /\ pc = "done" /\ rq.has_content

\* C1: in the Direct strategy every streamed body that begins, blanks trimmed
\* and in any letter case, with <html or <!DOCTYPE html is reported as
\* HTML_CONTENT and leaves no file at destinationFolder/baseName.ext.
C1_HtmlBodyRejectedInAnyCase ==
    (DirectStreamed /\ BeginsWithHtmlAnyCase(rq.response.body))
        => /\ rq.result.error = "DOWNLOAD_FAILED_HTML_CONTENT"
           /\ DirectFile \notin folder

\* C2: in the Direct strategy a streamed non-HTML body of n bytes is rejected
\* as TOO_SMALL, its file removed, when n < 1024, and is returned with exactly
\* its bytes, its file in place at the returned path, when n >= 1024.
C2_SizeGate ==
    (DirectStreamed /\ ~BeginsWithHtmlAnyCase(rq.response.body))
        => IF BodyLen(rq.response.body) < 1024
           THEN /\ rq.result = Failure("DOWNLOAD_FAILED_TOO_SMALL", None)
                /\ DirectFile \notin folder
           ELSE /\ rq.result = Success(join(folder_path, DirectFile), rq.response.body)
                /\ DirectFile \in folder

C2_Witness ==
    /\ DirectStreamed
    /\ ~BeginsWithHtmlAnyCase(rq.response.body)
    /\ BodyLen(rq.response.body) = 1024
    /\ Yielded(rq.result)
    /\ DirectFile \in folder

\* the name an archive entry gets: the file name itself when it is not yet a
\* key, else name_n.ext for the least n >= 1 for which that is not yet a key
Suffixed(filename, n) ==
    splitext(filename)[1] \o <<"_">> \o str(n) \o splitext(filename)[2]
FirstFreeName(filename, keys) ==
    IF filename \notin keys THEN filename
    ELSE Suffixed(filename,
                  CHOOSE n \in 1..(Cardinality(keys) + 1) :
                      /\ Suffixed(filename, n) \notin keys
                      /\ \A m \in 1..(n - 1) : Suffixed(filename, m) \in keys)

\* C3: every successful document adds a new key to the archive mapping and
\* replaces no entry: the entries already present are unchanged, and the new
\* entry holds the document's own bytes under its file name or, when that is
\* already a key, under name_1.ext, name_2.ext, ..., the first not yet present.
C3_CollisionAddsNewEntry ==
    [][(pc = "dsd_result" /\ Yielded(attempt.result))
        => /\ Len(file_contents_for_zip') = Len(file_contents_for_zip) + 1
           /\ SubSeq(file_contents_for_zip', 1, Len(file_contents_for_zip))
                  = file_contents_for_zip
           /\ LET added == file_contents_for_zip'[Len(file_contents_for_zip')]
              IN  /\ added.name \notin Keys(file_contents_for_zip)
                  /\ added.name = FirstFreeName(basename(attempt.result.path),
                                                Keys(file_contents_for_zip))
                  /\ added.content = attempt.result.content]_vars

\* two references with the same base name and extension: two entries, the
\* second suffixed _1, each with its own bytes
C3_Witness ==
    /\ Len(file_contents_for_zip) = 2
    /\ file_contents_for_zip[2].name = Suffixed(file_contents_for_zip[1].name, 1)
    /\ file_contents_for_zip[1].content # file_contents_for_zip[2].content

\* the references of the selected types, counted without filter_links
NumSelected == Cardinality({k \in DOMAIN links : links[k].type \in doc_types})
Count(tags) == Cardinality({k \in DOMAIN history : history[k] \in tags})
BatchOver == mode = "batch" /\ pc \in {"fd_reply", "done"}
                /\ reply.status # "error_no_documents"

\* C4: every reference of a selected type produces exactly one result, an
\* archive entry or a failure entry: the entries number the references
\* processed so far and, when the batch is over, the filtered references;
\* downloaded_count + number of failure entries = total_count.
C4_OneResultPerReference ==
    /\ Cardinality(Keys(file_contents_for_zip)) = Count({"archived"})
    /\ Len(failed_downloads_details) = Count({"failed", "raised"})
    /\ Len(history) = i - 1
    /\ BatchOver => Len(history) = NumSelected
    /\ (BatchOver /\ pc = "done")
          => /\ reply.total_count = NumSelected
             /\ reply.downloaded_count = Cardinality(Keys(file_contents_for_zip))
             /\ reply.downloaded_count + Len(failed_downloads_details) = reply.total_count

C4_Witness ==
    /\ BatchOver /\ pc = "done"
    /\ reply.downloaded_count = 1
    /\ reply.total_count = 2
    /\ Len(failed_downloads_details) = 1

\* the failure entry of the k-th processed reference
FailRank(k) == Cardinality({m \in 1..k : history[m] # "archived"})

\* C5: an exception that escapes the download attempt of a document is
\* recorded as one LOOP_PROCESSING_ERROR failure entry and nothing else is, the
\* later references are still processed, and the batch ends with a result.
C5_ExceptionDoesNotAbortBatch ==
    /\ \A k \in DOMAIN history :
          (history[k] # "archived" /\ FailRank(k) <= Len(failed_downloads_details))
              => (history[k] = "raised"
                    <=> failed_downloads_details[FailRank(k)].reason = "LOOP_PROCESSING_ERROR")
    /\ Len(failed_downloads_details) = Count({"failed", "raised"})
    /\ BatchOver => Len(history) = NumSelected
    /\ (mode = "batch" /\ pc = "done") => reply.status # "none"

C5_Witness ==
    /\ BatchOver /\ pc = "done"
    /\ history = <<"raised", "archived">>

\* the processing of the current reference has ended, its frames still in place
AttemptOver == mode = "batch" /\ pc \in {"dsd_result", "dsd_except"}

\* the reference being processed is the i-th filtered reference
InListOrder ==
    (mode = "batch" /\ pc \notin {"fd_download", "dsd_loop", "fd_reply", "done"})
        => /\ i \in DOMAIN filtered_links
           /\ call = CallOf(filtered_links[i])
           /\ Len(history) = i - 1

\* C6, as stated: Direct is attempted first and Rendered is invoked if and
\* only if Direct did not yield a file; no browser when Direct succeeds; at
\* most one invocation of each strategy per reference.
C6_RenderedIffDirectYieldedNoFile ==
    /\ InListOrder
    /\ AttemptOver
          => /\ attempt.calls \in {<<"requests">>, <<"requests", "selenium">>}
             /\ ("selenium" \in Range(attempt.calls)) <=> ~Yielded(attempt.req)
             /\ Yielded(attempt.req) => sel = NoSel

\* C6, amended: Rendered is invoked if and only if Direct returned a failure;
\* when Direct yields a file, or raises, Rendered is not invoked and no
\* browser is started.
C6_RenderedIffDirectReturnedFailure ==
    /\ InListOrder
    /\ AttemptOver
          => /\ attempt.calls \in {<<"requests">>, <<"requests", "selenium">>}
             /\ ("selenium" \in Range(attempt.calls)) <=> attempt.req.error # None
             /\ attempt.req.error # None => ~Yielded(attempt.req)
             /\ attempt.req.error = None
                   => /\ sel = NoSel
                      /\ Yielded(attempt.req) \/ (pc = "dsd_except" /\ attempt.raised = "OSError")

C6_Witness ==
    /\ AttemptOver
    /\ attempt.req.error = "DOWNLOAD_FAILED_TOO_SMALL"
    /\ attempt.calls = <<"requests", "selenium">>
    /\ sel.driver = "quit"

\* download_file_attempt has returned a failure after both strategies did
BothFailed ==
    /\ mode = "batch" /\ pc = "dsd_result"
    /\ attempt.calls = <<"requests", "selenium">>
    /\ ~Yielded(attempt.result)

ExceptionClass == {"DOWNLOAD_FAILED_EXCEPTION", "DOWNLOAD_FAILED_EXCEPTION_SEL_COOKIE",
                   "DOWNLOAD_FAILED_EXCEPTION_SEL_GENERAL"}

\* C7: when both strategies return a failure the recorded code is one of the
\* two codes returned, never empty, and an EXCEPTION-class code of Rendered
\* is recorded, with Rendered's detail, whatever Direct's code is.
C7_RecordedCodePrecedence ==
    BothFailed
        => /\ attempt.result.error # None
           /\ attempt.result.error \in {attempt.req.error, attempt.sel.error}
           /\ attempt.sel.error \in ExceptionClass
                 => /\ attempt.result.error = attempt.sel.error
                    /\ attempt.result.detail = attempt.sel.detail

C7_Witness ==
    /\ BothFailed
    /\ attempt.req.error = "DOWNLOAD_FAILED_EXCEPTION"
    /\ attempt.sel.error = "DOWNLOAD_FAILED_EXCEPTION_SEL_COOKIE"
    /\ attempt.result = attempt.sel

\* download_with_selenium has returned after the cookie-transfer GET, no file
\* obtained and no exception raised on any path
ExhaustedQuietly ==
    /\ mode = "rendered" /\ pc = "done" /\ attempt.raised = None
    /\ "poll" \in Range(sel.log)
    /\ "cookie_get" \in Range(sel.log)
    /\ ~Yielded(sel.result)
    /\ sel.result.error \notin ExceptionClass

\* C8, as stated: a Rendered attempt that exhausts its three fallbacks
\* without a valid file and without an exception returns DOWNLOAD_FAILED.
C8_ExhaustedReturnsDownloadFailed ==
    ExhaustedQuietly => sel.result.error = "DOWNLOAD_FAILED"

\* C8, amended: such an attempt returns the verdict on the body of the
\* cookie-transfer GET, HTML_CONTENT for a body recognised as HTML and
\* TOO_SMALL for any other body under 1024 bytes; download_with_selenium
\* never returns DOWNLOAD_FAILED.
C8_ExhaustedReturnsCookieVerdict ==
    /\ ExhaustedQuietly
          => IF LooksLikeHtml(sel.response.body)
             THEN sel.result.error = "DOWNLOAD_FAILED_HTML_CONTENT"
             ELSE /\ sel.result.error = "DOWNLOAD_FAILED_TOO_SMALL"
                  /\ BodyLen(sel.response.body) < 1024
    /\ sel.pending.error # "DOWNLOAD_FAILED"
    /\ sel.result.error # "DOWNLOAD_FAILED"

C8_Witness ==
    /\ ExhaustedQuietly
    /\ "inpage" \in Range(sel.log)
    /\ sel.result.error = "DOWNLOAD_FAILED_TOO_SMALL"
    /\ BodyLen(sel.response.body) = 1023

\* C9: when download_with_selenium is left, by a return or by an exception,
\* a browser that was started has been quit and the download directory no
\* longer exists.
C9_BrowserAndDirectoryTornDown ==
    (mode = "rendered" /\ pc = "done")
        => /\ sel.driver # "running"
           /\ sel.temp_dir # "exists"

\* C10: when the browser fails to initialise nothing else is done (no
\* navigation, polling, extraction or cookie GET), the strategy returns
\* DRIVER_INIT_ERROR, that code is recorded for the document whatever Direct
\* returned, and the remaining references are still processed.
C10_DriverInitErrorRecorded ==
    /\ sel.pending.error = "SELENIUM_DRIVER_INIT_ERROR" => sel.log = <<>>
    /\ (mode = "batch" /\ sel.pending.error = "SELENIUM_DRIVER_INIT_ERROR")
          => /\ pc \in {"dws_finally", "dfa_after_selenium", "dsd_result"}
             /\ pc # "dws_finally" => attempt.sel.error = "SELENIUM_DRIVER_INIT_ERROR"
             /\ pc = "dsd_result" => attempt.result.error = "SELENIUM_DRIVER_INIT_ERROR"
    /\ BatchOver => Len(history) = NumSelected

\* get_webpage_content has returned
Fetched == mode = "fetch" /\ pc = "done"

\* the failures that are timeouts, while connecting or while reading
TimeoutFailures == {"Timeout", "ConnectTimeout", "ReadTimeout"}
\* the failures to connect that are not timeouts
ConnectionFailures == {"ConnectionError", "ProxyError", "SSLError"}

\* C11: get_webpage_content issues exactly one GET and returns the page, or
\* not-found for HTTP 404, http-error with the status for any other HTTP error
\* status, connection-error for a connection failure, timeout for every
\* timeout (connecting or reading), fetch-error for any other transport
\* exception; it never retries and no transport exception escapes.
C11_OneGetAndErrorMapping ==
    /\ mode = "fetch" => Len(fn.gets) <= 1
    /\ Fetched
          => /\ fn.gets = <<fn.args>>
             /\ fn.result.error # "escaped"
             /\ fn.result.error =
                   IF fn.raised \in TimeoutFailures THEN "timeout"
                   ELSE IF fn.raised \in ConnectionFailures THEN "connection_error"
                   ELSE IF fn.raised # None THEN "fetch_error"
                   ELSE IF fn.status = 404 THEN "not_found"
                   ELSE IF fn.status >= 400 THEN "http_error"
                   ELSE None
             /\ fn.result.error = "http_error" => fn.result.status = fn.status

\* format_filename_base has returned
Formatted == mode = "format" /\ pc = "done"

IsDigits(s) == \A k \in DOMAIN s : s[k] \in Digits
\* exactly YYYY, YYYY-MM, DD/MM/YYYY
IsYear(s) == Len(s) = 4 /\ IsDigits(s)
IsYearMonth(s) ==
    Len(s) = 7 /\ IsDigits(SubSeq(s, 1, 4)) /\ s[5] = "-" /\ IsDigits(SubSeq(s, 6, 7))
IsDayMonthYear(s) ==
    /\ Len(s) = 10 /\ IsDigits(SubSeq(s, 1, 2)) /\ s[3] = "/"
    /\ IsDigits(SubSeq(s, 4, 5)) /\ s[6] = "/" /\ IsDigits(SubSeq(s, 7, 10))

\* every character outside letters, digits, underscore, dot, hyphen replaced by _
Sanitized(s) ==
    [k \in DOMAIN s |->
        IF s[k] \in Digits \cup Range(UpperLetters) \cup Range(LowerLetters) \cup {"_", ".", "-"}
        THEN s[k] ELSE "_"]

\* C12: format_filename_base returns, for every date string and type,
\* year_type for a 4-digit year, year_month_type for YYYY-MM,
\* year_month_day_type for DD/MM/YYYY, and for any other string the string
\* with every character outside letters, digits, underscore, dot and hyphen
\* replaced by an underscore, followed by _type.
C12_FileNameBaseByFormat ==
    Formatted
        => LET d == fn.args.date_str
               t == <<"_">> \o TypeText(fn.args.doc_type)
           IN  fn.result =
                 IF IsYear(d) THEN d \o t
                 ELSE IF IsYearMonth(d) THEN SubSeq(d, 1, 4) \o <<"_">> \o SubSeq(d, 6, 7) \o t
                 ELSE IF IsDayMonthYear(d)
                      THEN SubSeq(d, 7, 10) \o <<"_">> \o SubSeq(d, 4, 5) \o <<"_">>
                           \o SubSeq(d, 1, 2) \o t
                 ELSE Sanitized(d) \o t

\* get_extension_from_response has returned
Extracted == mode = "extension" /\ pc = "done"

\* the extension of a name: from its last dot on
ExtensionOf(name) ==
    IF RFind(name, ".") > 1 THEN SubSeq(name, RFind(name, "."), Len(name)) ELSE <<>>

\* C13: get_extension_from_response always returns an extension, chosen by
\* precedence: the extension of the Content-Disposition file name when it is
\* acceptable, whatever Content-Type says; else the extension of a known
\* Content-Type; else an acceptable extension of the URL path; else .pptx
\* for a Presentation and .pdf for every other type.
C13_ExtensionPrecedence ==
    Extracted
        => LET from_name == ExtensionOf(fn.sent.filename)
               from_type == mime_to_ext(lower(fn.sent.media))
               from_url == ExtensionOf(fn.args.url.path)
           IN  /\ Len(fn.result) > 1 /\ fn.result[1] = "."
               /\ fn.result =
                     IF PlausibleExt(from_name) THEN lower(from_name)
                     ELSE IF from_type # <<>> THEN from_type
                     ELSE IF PlausibleExt(from_url) THEN lower(from_url)
                     ELSE IF fn.args.doc_type_for_default = "PPT" THEN EXT_PPTX
                     ELSE EXT_PDF

\* parse_html_content has returned
Parsed == mode = "parse" /\ pc = "done" /\ fn.raised = None

\* the number of references of the given types in a list
NumOfType(refs, types) == Cardinality({k \in DOMAIN refs : refs[k].type \in types})

\* the references of the example, in the order they are returned
ExampleReferences ==
    <<[date |-> date_month, type |-> "Transcript", url |-> url_nse],
      [date |-> date_month, type |-> "PPT", url |-> url_bse_ann],
      [date |-> <<"2","0","2","2">>, type |-> "Annual_Report", url |-> url_plain]>>

\* C14: parse_html_content returns the references of both regions as one
\* sequence in which no date is smaller, as a string, than the date that
\* follows it; the example page gives exactly its three references, the two
\* of 2023-03 before the one of 2022; an empty input gives no reference, an
\* absent region gives none of its type, and neither raises an error.
C14_SortedReferencesOfBothRegions ==
    /\ Parsed
          => /\ \A k \in 1..(Len(fn.result) - 1) :
                    ~StrLess(fn.result[k].date, fn.result[k + 1].date)
             /\ fn.args.html_content
                   => /\ Len(fn.result) = Len(fn.all_links)
                      /\ \A r \in Range(fn.all_links) :
                            Cardinality({k \in DOMAIN fn.result : fn.result[k] = r})
                               = Cardinality({k \in DOMAIN fn.all_links : fn.all_links[k] = r})
             /\ fn.args = ExamplePage => fn.result = ExampleReferences
             /\ ~fn.args.html_content => fn.result = <<>>
             /\ fn.args.annual_reports = <<>> => NumOfType(fn.result, {"Annual_Report"}) = 0
             /\ fn.args.concall_items = <<>> => NumOfType(fn.result, {"Transcript", "PPT"}) = 0
    /\ (mode = "parse" /\ fn.args.annual_reports = <<>> /\ fn.args.concall_items = <<>>)
          => fn.raised = None

C14_Witness ==
    /\ Parsed
    /\ fn.args = ExamplePage
    /\ Len(fn.result) = 3
    /\ fn.all_links # fn.result

\* C15: every concall entry, whatever the number of its links, adds at most
\* one Transcript reference and at most one PPT reference: zero, one or two
\* references.
C15_AtMostOneReferenceOfEachType ==
    [][(mode = "parse" /\ pc = "phc_concalls" /\ fn'.raised = None /\ pc' = "phc_concalls")
        => LET added == SubSeq(fn'.all_links, Len(fn.all_links) + 1, Len(fn'.all_links))
           IN  /\ NumOfType(added, {"Transcript"}) <= 1
               /\ NumOfType(added, {"PPT"}) <= 1
               /\ Len(added) <= 2]_vars

\* the GETs of the Direct strategy whose response is streamed to disk
StreamedGets == {"alt", "target"}
ValidationFailures == {"DOWNLOAD_FAILED_HTML_CONTENT", "DOWNLOAD_FAILED_TOO_SMALL"}
Last(s) == s[Len(s)]

\* C16: in the Direct strategy nothing is requested after a GET of the
\* alternate or of the original URL has answered successfully, so a
\* validation failure ends the strategy and is reported; for a BSE
\* announcement-viewer URL the original URL is requested only right after
\* the alternate URL raised a transport or HTTP error, never after the
\* alternate URL answered and its body failed validation.
C16_ValidationFailureEndsDirect ==
    mode = "direct"
        => /\ \A k \in DOMAIN rq.log :
                 (rq.log[k].what \in StreamedGets /\ rq.log[k].ok) => k = Len(rq.log)
           /\ \A k \in DOMAIN rq.log :
                 (rq.log[k].what = "target" /\ call.url.viewer /\ call.url.pname)
                    => k > 1 /\ rq.log[k - 1].what = "alt" /\ ~rq.log[k - 1].ok
           /\ \A k \in DOMAIN rq.log :
                 rq.log[k].what = "alt"
                    => call.url.site = "bse" /\ call.url.viewer /\ call.url.pname
           /\ (pc = "done" /\ rq.result.error \in ValidationFailures)
                 => /\ rq.has_content
                    /\ Last(rq.log).what \in StreamedGets /\ Last(rq.log).ok
           /\ (pc = "done" /\ rq.has_content /\ Last(rq.log).what = "alt"
                  /\ ~Yielded(rq.result))
                 => /\ rq.result.error \in ValidationFailures
                    /\ \A k \in DOMAIN rq.log : rq.log[k].what # "target"

C16_Witness ==
    /\ mode = "direct" /\ pc = "done"
    /\ call.url = url_bse_ann
    /\ Len(rq.log) = 2 /\ Last(rq.log).what = "alt" /\ Last(rq.log).ok
    /\ rq.result.error = "DOWNLOAD_FAILED_TOO_SMALL"

\* the position of a step of the Rendered strategy in its fixed order
StepRank(step) ==
    CASE step = "poll" -> 1
      [] step = "inpage" -> 2
      [] step \in {"get_cookies", "cookie_get"} -> 3
      [] OTHER -> 0
Steps(log) == {k \in DOMAIN log : StepRank(log[k]) > 0}

\* C17: the Rendered strategy runs its fallbacks in the order downloaded
\* file, in-page PDF, cookie GET, each at most once and none skipped except
\* the in-page PDF step, which is never run for a Presentation; a file of the
\* first two steps that is too small is removed from the folder and the next
\* fallback is run; only the cookie GET returns TOO_SMALL or HTML_CONTENT.
C17_FallbackOrderAndCleanup ==
    mode = "rendered"
        => /\ \A j, k \in Steps(sel.log) : j < k => StepRank(sel.log[j]) < StepRank(sel.log[k])
           /\ \A k \in Steps(sel.log) :
                 /\ sel.log[k] = "inpage" => "poll" \in Range(sel.log)
                 /\ StepRank(sel.log[k]) = 3
                       => /\ "poll" \in Range(sel.log)
                          /\ call.doc_type # "PPT" => "inpage" \in Range(sel.log)
           /\ call.doc_type = "PPT" => "inpage" \notin Range(sel.log)
           /\ \A k \in DOMAIN sel.log :
                 sel.log[k] = "removed"
                    => /\ k > 1 /\ sel.log[k - 1] \in {"poll", "inpage"}
                       /\ k = Len(sel.log)
                             => pc = (IF sel.log[k - 1] = "inpage" \/ call.doc_type = "PPT"
                                      THEN "dws_cookie" ELSE "dws_inpage")
           /\ pc \in {"dws_inpage", "dws_cookie"} => folder = {}
           /\ sel.pending.error \in ValidationFailures => Last(sel.log) = "cookie_get"
           /\ Yielded(sel.pending) => BodyLen(sel.pending.content) >= 1024

C17_Witness ==
    /\ mode = "rendered" /\ pc = "done"
    /\ \E k \in DOMAIN sel.log :
          SubSeq(sel.log, k, Len(sel.log))
             = <<"poll", "removed", "inpage", "removed", "cookie_get">>
    /\ sel.result.error = "DOWNLOAD_FAILED_TOO_SMALL"
    /\ folder = {}

\* the warm-up requests of a URL, in order
WarmUps(url) ==
    IF url.site = "bse" THEN <<"bse_root">>
    ELSE IF url.site = "nse" THEN <<"nse_root", "nse_listing">>
    ELSE <<>>

\* C18: the Direct strategy requests the target (or its alternate URL) only
\* after every warm-up request of the host has returned, in order: the BSE
\* root for a BSE URL; the NSE root, then the listing page, for an NSE URL,
\* whose target is requested with the listing page as referrer; nothing for
\* another host, whose target is the only request. A warm-up request that
\* raises is the last request, and the outcome is the failure EXCEPTION.
C18_TargetAfterWarmUps ==
    mode = "direct"
        => LET w == WarmUps(call.url)
           IN  /\ \A k \in DOMAIN rq.log :
                     IF k <= Len(w) THEN rq.log[k].what = w[k]
                     ELSE /\ rq.log[k].what \in StreamedGets
                          /\ \A j \in DOMAIN w : rq.log[j].ok
               /\ Cardinality({k \in DOMAIN rq.log : rq.log[k].what = "target"}) <= 1
               /\ \A k \in DOMAIN rq.log :
                     (rq.log[k].what = "target" /\ call.url.site = "nse")
                        => rq.log[k].referer = "nse_listing"
               /\ call.url.site = "other" => Len(rq.log) <= 1
               /\ \A k \in DOMAIN rq.log :
                     (k <= Len(w) /\ ~rq.log[k].ok)
                        => /\ k = Len(rq.log)
                           /\ pc = "done"
                           /\ rq.result = Failure("DOWNLOAD_FAILED_EXCEPTION", DetailOf("requests"))
               /\ (pc = "done" /\ attempt.raised = None /\ rq.result.error = None)
                     => Last(rq.log).what \in StreamedGets

C18_Witness ==
    /\ mode = "direct" /\ pc = "done"
    /\ call.url = url_nse
    /\ Len(rq.log) = 3
    /\ rq.log[3] = [what |-> "target", referer |-> "nse_listing", ok |-> TRUE]
    /\ Yielded(rq.result)

\* a call of a download strategy has returned a failure
StrategyFailed ==
    /\ pc = "done" /\ attempt.raised = None
    /\ \/ mode = "direct" /\ rq.result.error # None
       \/ mode = "rendered" /\ sel.result.error # None

\* C19: when a download strategy returns a failure, no file written by that
\* attempt remains in the destination folder.
C19_FailureLeavesNoFile ==
    StrategyFailed => folder = {}

====
